---- MODULE Spec2Model ----
(***************************************************************************)
(* SSHMenu (sshmenu.go): the menu navigator of main(), the command         *)
(* dispatcher, the filter engine, the bell-filtering writer and the        *)
(* self-update routine.                                                    *)
(*                                                                         *)
(* Strings are sequences of one-character strings, so that ToLower,        *)
(* Contains, Join and ReplaceAll are computed and not assumed.  A          *)
(* character outside ASCII is written by its code point ("U+23FB").        *)
(***************************************************************************)
EXTENDS Integers, Sequences, FiniteSets, TLC

VARIABLES
    args,          \* os.Args[1:], a sequence of words
    file,          \* what the configuration file holds on disk right now
    cfg,           \* main's cfg: the configuration read by the last loadConfig
    searchString,  \* main's searchString
    printedHelp,   \* main's printedHelp
    pc,            \* where main is blocked: a prompt, a running command, or exited
    widget,        \* the selection widget main is linked with
    exitCode,      \* the process's exit status once pc = "exited" (-1 before)
    items,         \* the Items of the promptui.Select being shown
    flatServers,   \* main's flatServers (flat mode)
    project,       \* main's project (hierarchical mode)
    pidx,          \* main's pidx (hierarchical mode)
    ret,           \* what the last promptui Run returned: idx, result, err
    server,        \* main's server: the one being dispatched
    cmdStr,        \* main's cmdStr: the string handed to bash -c
    out,           \* the messages printed so far, in order
    nDispatched,   \* history: how many commands were started
    shown,         \* history: how many times each menu was presented
    nEdits,        \* history: how many times the file was changed on disk
    fileAtSelect,  \* history: what the file held when the last selection was made
    \* bellFilter.Write
    wp,            \* the slice p handed to Write
    wpc,           \* "ready" before the call, "done" after it
    wCalled,       \* whether b.w.Write was called
    wUnder,        \* the bytes the underlying stream received
    wUnderRet,     \* what b.w.Write returned: n, err
    wRet,          \* what bellFilter.Write returned: n, err
    \* the self-update routine (sshmenu --update)
    upc,           \* where the routine is: "start", "fetched", "downloaded", "exited"
    uExe,          \* the content of the executable file
    uTmp,          \* the temporary file: whether it exists, and its content
    uRelease,      \* the binary the release URL serves
    uBody,         \* the body of the HTTP response
    uResp,         \* the HTTP response: whether one was received, its Content-Type
    tmpSum,        \* main's tmpSum
    exeSum,        \* main's exeSum
    uExit,         \* the exit status once upc = "exited" (-1 before)
    uOut,          \* the messages printed by this run
    uRuns,         \* history: how many times the routine was started
    uReplaced,     \* history: how many times the executable was replaced
    uRun           \* history of this run: copied, replaced, remove, version,
                   \* and the step that failed

navVars == <<widget, args, file, cfg, searchString, printedHelp, pc, exitCode, items,
             flatServers, project, pidx, ret, server, cmdStr, out, nDispatched,
             shown, nEdits, fileAtSelect>>

writeVars == <<wp, wpc, wCalled, wUnder, wUnderRet, wRet>>

updateVars == <<upc, uExe, uTmp, uRelease, uBody, uResp, tmpSum, exeSum, uExit, uOut,
                uRuns, uReplaced, uRun>>

vars == <<navVars, writeVars, updateVars>>

-----------------------------------------------------------------------------
(* Bounds of the model *)

\* the longest command-line word drawn for the search string
MaxWordLen == 2
\* how many commands one process may start in the model
MaxDispatch == 2
\* how many menus one process may present in the model
MaxPrompts == 4
\* how many times the configuration file changes on disk
MaxEdits == 2

-----------------------------------------------------------------------------
(* Strings *)

UpperCase == <<"A","B","C","D","E","F","G","H","I","J","K","L","M",
               "N","O","P","Q","R","S","T","U","V","W","X","Y","Z">>
LowerCase == <<"a","b","c","d","e","f","g","h","i","j","k","l","m",
               "n","o","p","q","r","s","t","u","v","w","x","y","z">>

\* strings.ToLower on one character: an upper-case letter becomes its
\* lower-case letter, every other character is kept
ToLowerChar(c) ==
    IF \E i \in 1..Len(UpperCase) : UpperCase[i] = c
    THEN LowerCase[CHOOSE i \in 1..Len(UpperCase) : UpperCase[i] = c]
    ELSE c

\* strings.ToLower
ToLower(s) == [i \in 1..Len(s) |-> ToLowerChar(s[i])]

\* strings.Index: the 0-based position of the first occurrence of sub in s, or -1
Index(s, sub) ==
    LET hits == {i \in 0..(Len(s) - Len(sub)) : SubSeq(s, i + 1, i + Len(sub)) = sub}
    IN  IF hits = {} THEN -1 ELSE CHOOSE i \in hits : \A j \in hits : i <= j

\* strings.Contains
Contains(s, sub) == Index(s, sub) >= 0

RECURSIVE Join(_, _)
\* strings.Join
Join(words, sep) ==
    IF Len(words) = 0 THEN <<>>
    ELSE IF Len(words) = 1 THEN words[1]
    ELSE words[1] \o sep \o Join(Tail(words), sep)

RECURSIVE ReplaceAll(_, _, _)
\* strings.ReplaceAll for a non-empty old: left to right, the occurrences that
\* do not overlap; what was inserted is not scanned again
ReplaceAll(s, old, new) ==
    LET j == Index(s, old)
    IN  IF j < 0 THEN s
        ELSE SubSeq(s, 1, j) \o new
             \o ReplaceAll(SubSeq(s, j + Len(old) + 1, Len(s)), old, new)

ServerToken == <<"{","s","e","r","v","e","r","}">>

\* strings.Replace(s, old, new, 1): the first occurrence only
ReplaceFirst(s, old, new) ==
    LET j == Index(s, old)
    IN  IF j < 0 THEN s
        ELSE SubSeq(s, 1, j) \o new \o SubSeq(s, j + Len(old) + 1, Len(s))

\* stringReplace, sshmenu.go:409-411
stringReplace(s, old, new) == ReplaceAll(s, old, new)

replaceServer(template, name) == stringReplace(template, ServerToken, name)

Quit == <<"U+23FB"," ","Q","u","i","t">>
Back == <<"U+2B05"," ","B","a","c","k">>
Dash == <<" ","-"," ">>

HelpFlag    == <<"-","-","h","e","l","p">>
VersionFlag == <<"-","-","v","e","r","s","i","o","n">>
UpdateFlag  == <<"-","-","u","p","d","a","t","e">>

-----------------------------------------------------------------------------
(* Configurations *)

Srv(n, d, c) == [name |-> n, description |-> d, command |-> c]
Prj(n, ss)   == [name |-> n, servers |-> ss]
Cfg(g, ps)   == [global_command |-> g, projects |-> ps]

SrvWeb  == Srv(<<"a","B">>, <<"P","r","o","d"," ","b","a">>, <<>>)
SrvDb   == Srv(<<"A","b","1">>, <<"a","b"," ","b">>, <<"m","y"," ">> \o ServerToken)
SrvApi  == Srv(<<"b","b">>, <<"x","A","B">>, <<>>)
SrvTok  == Srv(ServerToken, <<>>, <<>>)

GlobalSsh   == <<"s","s","h"," ">> \o ServerToken
GlobalTwice == ServerToken \o <<"@">> \o ServerToken \o <<"{","s","e","r","v","e","r">>
GlobalNest  == <<"{">> \o ServerToken \o <<"}">>

\* What the configuration file can hold, as loadConfig decodes it
FileContents == <<
    Cfg(GlobalSsh,   << Prj(<<"A">>, <<SrvWeb, SrvDb>>), Prj(<<"B">>, <<SrvApi, SrvTok>>) >>),
    Cfg(GlobalTwice, << Prj(<<"A">>, <<SrvDb, SrvWeb, SrvTok>>) >>),
    Cfg(GlobalNest,  << Prj(Quit, <<SrvApi>>), Prj(<<"E">>, <<>>), Prj(<<"B">>, <<SrvTok, SrvWeb>>) >>),
    Cfg(<<>>,        <<>>)
  >>

\* the file is missing, unreadable or not valid YAML
BadFile == 0

Files == {BadFile} \cup (1..Len(FileContents))

NoConfig == Cfg(<<>>, <<>>)
NoServer == Srv(<<>>, <<>>, <<>>)
NoProject == Prj(<<>>, <<>>)

\* loadConfig: ok is FALSE when os.Open or the YAML decoder fails
loadConfig(f) ==
    IF f = BadFile THEN [ok |-> FALSE, cfg |-> NoConfig]
    ELSE [ok |-> TRUE, cfg |-> FileContents[f]]

-----------------------------------------------------------------------------
(* Command-line arguments *)

SearchAlphabet == {"a", "B", "b"}

RECURSIVE StringsUpTo(_, _)
StringsUpTo(alphabet, n) ==
    IF n = 0 THEN {<<>>}
    ELSE LET shorter == StringsUpTo(alphabet, n - 1)
         IN  shorter \cup {Append(s, c) : s \in shorter, c \in alphabet}

Words == StringsUpTo(SearchAlphabet, MaxWordLen)

ArgLists ==
    {<<>>} \cup {<<w>> : w \in Words}
    \cup {<<<<"a">>, <<"b">>>>, <<<<"b">>, <<>>>>, <<<<"z">>, HelpFlag>>}
    \cup {<<HelpFlag>>, <<VersionFlag>>, <<VersionFlag, <<"a">>>>}

-----------------------------------------------------------------------------
(* The filter engine and the menus *)

matchesCaseSensitive(s, search) ==
    Contains(s.name, search) \/ Contains(s.description, search)

\* the condition of sshmenu.go:253
matches(s, search) ==
    \/ Contains(ToLower(s.name), ToLower(search))
    \/ Contains(ToLower(s.description), ToLower(search))

RECURSIVE filterServers(_, _, _)
\* the inner loop of sshmenu.go:252-256, appending to acc
filterServers(servers, search, acc) ==
    IF Len(servers) = 0 THEN acc
    ELSE filterServers(Tail(servers), search,
                       IF matches(Head(servers), search)
                       THEN Append(acc, Head(servers)) ELSE acc)

RECURSIVE filterProjects(_, _, _)
\* the outer loop of sshmenu.go:251-257
filterProjects(projects, search, acc) ==
    IF Len(projects) = 0 THEN acc
    ELSE filterProjects(Tail(projects), search,
                        filterServers(Head(projects).servers, search, acc))

FlatServers(c, search) == filterProjects(c.projects, search, <<>>)

ServerLabel(s) == s.name \o Dash \o s.description

\* serverNames of sshmenu.go:262-266 and 349-353, before the synthetic entry
ServerNames(servers) == [i \in 1..Len(servers) |-> ServerLabel(servers[i])]

\* projectNames of sshmenu.go:312-316
ProjectNames(c) == [i \in 1..Len(c.projects) |-> c.projects[i].name] \o <<Quit>>

\* promptui.Select.Run: an error with index 0 and no result, or the index of
\* an item of the list together with that item
\* With widget = "promptui" this is all Run returns. The bound checks of
\* sshmenu.go:291, 344 and 377 guard against a widget that returns, without an
\* error, an index that is no real entry together with a label that is no
\* synthetic entry; widget = "unchecked" is such a widget.
Unlisted == <<"?">>
WidgetResults(list) ==
    {[idx |-> i - 1, result |-> list[i], err |-> "nil"] : i \in 1..Len(list)}
    \cup {[idx |-> 0, result |-> <<>>, err |-> e] : e \in {"interrupt", "eof", "failed"}}
    \cup (IF widget = "unchecked"
          THEN {[idx |-> i, result |-> Unlisted, err |-> "nil"] :
                    i \in {-1, Len(list) - 1, Len(list)}}
          ELSE {})

NoRet == [idx |-> 0, result |-> <<>>, err |-> "none"]

\* cmdStr of sshmenu.go:296-300 and 382-386
EffectiveCommand(s, c) ==
    IF s.command = <<>> THEN replaceServer(c.global_command, s.name) ELSE s.command

NoneShown == [flat |-> 0, project |-> 0, server |-> 0]
TotalShown == shown.flat + shown.project + shown.server

-----------------------------------------------------------------------------
(* The parts of the state a specification does not exercise stay as here *)

NoFile == [exists |-> FALSE, data |-> <<>>]
NoWriteRet == [n |-> 0, err |-> "none"]
NoRun == [copied |-> FALSE, replaced |-> FALSE, remove |-> "none",
          version |-> "none", failed |-> "none"]
NoResp == [got |-> FALSE, ct |-> <<>>]
NoSum == [len |-> -1, head |-> -1]

WriteIdle ==
    /\ wp = <<>> /\ wpc = "idle" /\ wCalled = FALSE /\ wUnder = <<>>
    /\ wUnderRet = NoWriteRet /\ wRet = NoWriteRet

UpdateIdle ==
    /\ upc = "idle" /\ uExe = <<>> /\ uTmp = NoFile /\ uRelease = <<>>
    /\ uBody = <<>> /\ uResp = NoResp /\ tmpSum = NoSum /\ exeSum = NoSum
    /\ uExit = -1 /\ uOut = <<>> /\ uRuns = 0 /\ uReplaced = 0 /\ uRun = NoRun

-----------------------------------------------------------------------------
(* The menu navigator: main() of sshmenu.go, lines 96-118 and 202-403 *)

Say(o, msg) == Append(o, msg)

\* os.Exit(code), or main returning (code 0)
Exit(code) == pc' = "exited" /\ exitCode' = code

CancelledAsFailure == out' = Say(out, "Prompt failed") /\ Exit(1)

\* err == promptui.ErrInterrupt || err == promptui.ErrEOF, sshmenu.go:279-282,
\* 332-335 and 365-368
Cancelled == out' = Say(out, "Exiting.") /\ Exit(0)

\* any other error of the prompt, sshmenu.go:283-286, 336-339 and 369-372 (the
\* break of the server loop leads to the return of line 397)
PromptFailed == out' = Say(out, "Prompt failed") /\ Exit(0)

QuitIgnored == out' = out /\ pc' = pc /\ exitCode' = exitCode

\* the synthetic Quit entry was chosen, sshmenu.go:287-290 and 340-343
QuitChosen == out' = Say(out, "Exiting.") /\ Exit(0)

NothingChosenContinues == out' = out /\ pc' = pc /\ exitCode' = exitCode

\* an index that is no real entry in the flat list or the project list,
\* sshmenu.go:291-294 and 344-347
NothingChosen == out' = out /\ Exit(0)

\* the configuration is loaded before the loop only (sshmenu.go:222), and kept
ReloadSkipped == IF pc = "start" THEN loadConfig(file) ELSE [ok |-> TRUE, cfg |-> cfg]

\* a reload that fails keeps the configuration loaded before
ReloadWithFallback ==
    IF pc = "start" \/ loadConfig(file).ok THEN loadConfig(file)
    ELSE [ok |-> TRUE, cfg |-> cfg]

\* cfg, err = loadConfig(configPath) at the top of the loop, sshmenu.go:242
Reload == loadConfig(file)

NoneFoundUnchecked(fs) == FALSE

\* len(flatServers) == 0, sshmenu.go:258
NoneFound(fs) == Len(fs) = 0

HintAlways(o) == Say(o, "Navigation hint")

\* if !printedHelp { fmt.Println(hint) }, sshmenu.go:318-321
HintOutput(o) == IF printedHelp THEN o ELSE Say(o, "Navigation hint")

\* One pass through the top of the for loop, sshmenu.go:240-329: reload the
\* configuration, then build and present the flat list or the project list.
\* search is the search string, o what has been printed before the pass.
LoopIteration(search, o) ==
    LET l == Reload IN
    /\ cfg' = l.cfg
    /\ IF ~l.ok
       THEN /\ out' = Say(o, "Error loading config")
            /\ Exit(1)
            /\ UNCHANGED <<items, flatServers, printedHelp, shown>>
       ELSE IF search # <<>>
       THEN LET fs == FlatServers(l.cfg, search) IN
            /\ flatServers' = fs
            /\ UNCHANGED printedHelp
            /\ IF NoneFound(fs)
               THEN /\ out' = Say(o, "No servers found matching")
                    /\ Exit(0)
                    /\ UNCHANGED <<items, shown>>
               ELSE /\ TotalShown < MaxPrompts
                    /\ items' = ServerNames(fs) \o <<Quit>>
                    /\ shown' = [shown EXCEPT !.flat = @ + 1]
                    /\ out' = o
                    /\ pc' = "flatPrompt"
                    /\ UNCHANGED exitCode
       ELSE /\ TotalShown < MaxPrompts
            /\ items' = ProjectNames(l.cfg)
            /\ out' = HintOutput(o)
            /\ printedHelp' = TRUE
            /\ shown' = [shown EXCEPT !.project = @ + 1]
            /\ pc' = "projectPrompt"
            /\ UNCHANGED <<exitCode, flatServers>>

\* main from its first line to the first prompt, sshmenu.go:96-118 and 202-246
Startup ==
    /\ pc = "start"
    /\ UNCHANGED <<writeVars, updateVars>>
    /\ UNCHANGED <<widget, args, file, project, pidx, ret, server, cmdStr, nDispatched,
                   nEdits, fileAtSelect>>
    /\ IF Len(args) > 0 /\ args[1] = HelpFlag
       THEN /\ out' = Say(out, "Usage")
            /\ Exit(0)
            /\ UNCHANGED <<cfg, searchString, printedHelp, items, flatServers, shown>>
       ELSE IF Len(args) > 0 /\ args[1] = VersionFlag
       THEN /\ out' = Say(out, "Version")
            /\ Exit(0)
            /\ UNCHANGED <<cfg, searchString, printedHelp, items, flatServers, shown>>
       ELSE IF ~loadConfig(file).ok
       THEN /\ out' = Say(out, "Error loading config")
            /\ Exit(1)
            /\ UNCHANGED <<cfg, searchString, printedHelp, items, flatServers, shown>>
       ELSE LET search == IF Len(args) > 0 /\ args[1] # HelpFlag /\ args[1] # UpdateFlag
                          THEN Join(args, <<" ">>) ELSE <<>>
            IN  /\ searchString' = search
                /\ LoopIteration(search, out)

\* The configuration file is edited while the program runs
EditFile ==
    /\ pc # "exited"
    /\ UNCHANGED <<writeVars, updateVars>>
    /\ nEdits < MaxEdits
    /\ \E f \in Files \ {file} : file' = f
    /\ nEdits' = nEdits + 1
    /\ UNCHANGED <<widget, args, cfg, searchString, printedHelp, pc, exitCode, items,
                   flatServers, project, pidx, ret, server, cmdStr, out,
                   nDispatched, shown, fileAtSelect>>

\* as Dispatch, for the entry after the chosen one (the first after the last)
DispatchNeighbour(s, runningAt) ==
    LET list == IF runningAt = "flatRunning" THEN flatServers ELSE project.servers
        n == ((CHOOSE i \in 1..Len(list) : list[i] = s) % Len(list)) + 1
    IN  /\ nDispatched < MaxDispatch
        /\ server' = list[n]
        /\ cmdStr' = EffectiveCommand(list[n], cfg)
        /\ out' = Say(out, "Running")
        /\ nDispatched' = nDispatched + 1
        /\ pc' = runningAt

\* The dispatch of sshmenu.go:295-305 and 381-391, up to the start of bash
Dispatch(s, runningAt) ==
    /\ nDispatched < MaxDispatch
    /\ server' = s
    /\ cmdStr' = EffectiveCommand(s, cfg)
    /\ out' = Say(out, "Running")
    /\ nDispatched' = nDispatched + 1
    /\ pc' = runningAt

\* The flat list's prompt returns, sshmenu.go:277-305
FlatSelect ==
    /\ pc = "flatPrompt"
    /\ UNCHANGED <<writeVars, updateVars>>
    /\ \E r \in WidgetResults(items) :
        /\ ret' = r
        /\ fileAtSelect' = file
        /\ UNCHANGED <<widget, args, file, cfg, searchString, printedHelp, items,
                       flatServers, project, pidx, shown, nEdits>>
        /\ IF r.err \in {"interrupt", "eof"}
           THEN /\ Cancelled
                /\ UNCHANGED <<server, cmdStr, nDispatched>>
           ELSE IF r.err # "nil"
           THEN /\ PromptFailed
                /\ UNCHANGED <<server, cmdStr, nDispatched>>
           ELSE IF r.result = Quit
           THEN /\ QuitChosen
                /\ UNCHANGED <<server, cmdStr, nDispatched>>
           ELSE IF r.idx < 0 \/ r.idx >= Len(flatServers)
           THEN /\ NothingChosen
                /\ UNCHANGED <<server, cmdStr, nDispatched>>
           ELSE /\ Dispatch(flatServers[r.idx + 1], "flatRunning")
                /\ UNCHANGED exitCode

CommandOutcomes == {"ok", "exit nonzero", "not started"}

AfterRun(outcome) == IF outcome = "ok" THEN out ELSE Say(out, "Command failed")

\* as FlatCommandDone, with continue in place of the return of line 309
FlatCommandDoneLoops ==
    /\ pc = "flatRunning"
    /\ UNCHANGED <<writeVars, updateVars>>
    /\ LoopIteration(searchString, out)
    /\ UNCHANGED <<widget, args, file, searchString, project, pidx, ret, server, cmdStr,
                   nDispatched, nEdits, fileAtSelect>>

\* cmd.Run returns in flat mode, sshmenu.go:306-309
FlatCommandDone ==
    /\ pc = "flatRunning"
    /\ UNCHANGED <<writeVars, updateVars>>
    /\ \E outcome \in CommandOutcomes : out' = AfterRun(outcome)
    /\ Exit(0)
    /\ UNCHANGED <<widget, args, file, cfg, searchString, printedHelp, items, flatServers,
                   project, pidx, ret, server, cmdStr, nDispatched, shown,
                   nEdits, fileAtSelect>>

\* The project list's prompt returns, sshmenu.go:330-363
ProjectSelect ==
    /\ pc = "projectPrompt"
    /\ UNCHANGED <<writeVars, updateVars>>
    /\ \E r \in WidgetResults(items) :
        /\ ret' = r
        /\ fileAtSelect' = file
        /\ UNCHANGED <<widget, args, file, cfg, searchString, printedHelp, flatServers,
                       server, cmdStr, nDispatched, nEdits>>
        /\ IF r.err \in {"interrupt", "eof"}
           THEN /\ Cancelled
                /\ UNCHANGED <<items, project, pidx, shown>>
           ELSE IF r.err # "nil"
           THEN /\ PromptFailed
                /\ UNCHANGED <<items, project, pidx, shown>>
           ELSE IF r.result = Quit
           THEN /\ QuitChosen
                /\ UNCHANGED <<items, project, pidx, shown>>
           ELSE IF r.idx < 0 \/ r.idx >= Len(cfg.projects)
           THEN /\ NothingChosen
                /\ UNCHANGED <<items, project, pidx, shown>>
           ELSE /\ TotalShown < MaxPrompts
                /\ pidx' = r.idx
                /\ project' = cfg.projects[r.idx + 1]
                /\ items' = ServerNames(cfg.projects[r.idx + 1].servers) \o <<Back>>
                /\ shown' = [shown EXCEPT !.server = @ + 1]
                /\ pc' = "serverPrompt"
                /\ UNCHANGED <<exitCode, out>>

\* The server list's prompt returns, sshmenu.go:363-391 and 398-400
ServerSelect ==
    /\ pc = "serverPrompt"
    /\ UNCHANGED <<writeVars, updateVars>>
    /\ \E r \in WidgetResults(items) :
        /\ ret' = r
        /\ fileAtSelect' = file
        /\ UNCHANGED <<widget, args, file, searchString, project, pidx, nEdits>>
        /\ IF r.err \in {"interrupt", "eof"}
           THEN /\ Cancelled
                /\ UNCHANGED <<cfg, printedHelp, items, flatServers, server, cmdStr,
                               nDispatched, shown>>
           ELSE IF r.err # "nil"
           THEN /\ PromptFailed
                /\ UNCHANGED <<cfg, printedHelp, items, flatServers, server, cmdStr,
                               nDispatched, shown>>
           ELSE IF r.result = Back
           THEN /\ LoopIteration(searchString, out)
                /\ UNCHANGED <<server, cmdStr, nDispatched>>
           ELSE IF r.idx < 0 \/ r.idx >= Len(project.servers)
           THEN /\ TotalShown < MaxPrompts
                /\ shown' = [shown EXCEPT !.server = @ + 1]
                /\ UNCHANGED <<cfg, printedHelp, pc, exitCode, items, flatServers,
                               server, cmdStr, nDispatched, out>>
           ELSE /\ Dispatch(project.servers[r.idx + 1], "serverRunning")
                /\ UNCHANGED <<cfg, printedHelp, exitCode, items, flatServers, shown>>

\* as ServerCommandDone, with a return when the command failed
ServerCommandDoneStrict ==
    /\ pc = "serverRunning"
    /\ UNCHANGED <<writeVars, updateVars>>
    /\ TotalShown < MaxPrompts
    /\ \E outcome \in CommandOutcomes :
        /\ out' = AfterRun(outcome)
        /\ IF outcome = "ok"
           THEN /\ shown' = [shown EXCEPT !.server = @ + 1]
                /\ pc' = "serverPrompt"
                /\ UNCHANGED exitCode
           ELSE Exit(0) /\ UNCHANGED shown
    /\ UNCHANGED <<widget, args, file, cfg, searchString, printedHelp, items,
                   flatServers, project, pidx, ret, server, cmdStr, nDispatched,
                   nEdits, fileAtSelect>>

\* cmd.Run returns in hierarchical mode and the server list is shown again,
\* sshmenu.go:392-395 and 354-363
ServerCommandDone ==
    /\ pc = "serverRunning"
    /\ UNCHANGED <<writeVars, updateVars>>
    /\ TotalShown < MaxPrompts
    /\ \E outcome \in CommandOutcomes : out' = AfterRun(outcome)
    /\ shown' = [shown EXCEPT !.server = @ + 1]
    /\ pc' = "serverPrompt"
    /\ UNCHANGED <<widget, args, file, cfg, searchString, printedHelp, exitCode, items,
                   flatServers, project, pidx, ret, server, cmdStr, nDispatched,
                   nEdits, fileAtSelect>>

\* main is entered, linked with widget w
Started(w) ==
    /\ widget = w
    /\ args \in ArgLists
    /\ file \in Files
    /\ cfg = NoConfig
    /\ searchString = <<>>
    /\ printedHelp = FALSE
    /\ pc = "start"
    /\ exitCode = -1
    /\ items = <<>>
    /\ flatServers = <<>>
    /\ project = NoProject
    /\ pidx = 0
    /\ ret = NoRet
    /\ server = NoServer
    /\ cmdStr = <<>>
    /\ out = <<>>
    /\ nDispatched = 0
    /\ shown = NoneShown
    /\ nEdits = 0
    /\ fileAtSelect = BadFile
    /\ WriteIdle
    /\ UpdateIdle

Next ==
    \/ Startup
    \/ EditFile
    \/ FlatSelect
    \/ FlatCommandDone
    \/ ProjectSelect
    \/ ServerSelect
    \/ ServerCommandDone

Init == Started("promptui")

Spec == Init /\ [][Next]_vars

\* the same program with a widget whose results the bound checks guard against
DefensiveInit == Started("unchecked")

DefensiveSpec == DefensiveInit /\ [][Next]_vars

-----------------------------------------------------------------------------
(* Properties of the menu navigator *)

Running == pc \in {"flatRunning", "serverRunning"}

\* a step taken by main at program position at (not an edit of the file)
MainStepAt(at) == pc = at /\ nEdits' = nEdits

\* the widget returned the entry at the last position of the list shown
ChoseLast(r) == r.err = "nil" /\ r.idx = Len(items) - 1

\* C1: in the flat list and in the project list the last entry is the synthetic
\* Quit, and choosing it ends the process with exit code 0 in that very step,
\* with no command started, whatever happened before.
C1_QuitTerminates ==
    /\ [](pc \in {"flatPrompt", "projectPrompt"} => items[Len(items)] = Quit)
    /\ [][ ((MainStepAt("flatPrompt") \/ MainStepAt("projectPrompt")) /\ ChoseLast(ret'))
           => (pc' = "exited" /\ exitCode' = 0
               /\ nDispatched' = nDispatched /\ cmdStr' = cmdStr) ]_navVars

\* Quit was chosen in the project list after a command was run and Back was used
C1_Witness ==
    /\ pc = "exited" /\ exitCode = 0
    /\ ChoseLast(ret) /\ ret.result = Quit
    /\ nDispatched >= 1 /\ shown.project >= 2

\* the project menu of a configuration: its project names in order, then Quit
ExpectedProjectList(c) ==
    [i \in 1..(Len(c.projects) + 1) |->
        IF i <= Len(c.projects) THEN c.projects[i].name ELSE Quit]

\* C2: choosing Back in the server list starts no command and leads to the
\* project list, built from what the file holds at that moment; only a file
\* that cannot be loaded makes the process exit instead.
C2_BackReloads ==
    [][ (MainStepAt("serverPrompt") /\ ret'.err = "nil" /\ ret'.result = Back)
        => /\ nDispatched' = nDispatched
           /\ IF file = BadFile
              THEN pc' = "exited"
              ELSE /\ pc' = "projectPrompt"
                   /\ exitCode' = -1
                   /\ cfg' = FileContents[file]
                   /\ items' = ExpectedProjectList(FileContents[file]) ]_navVars

\* the project list is shown after Back, from a file that changed while the
\* server list was shown: the project chosen before is no longer what it was
C2_Witness ==
    /\ pc = "projectPrompt"
    /\ ret.err = "nil" /\ ret.result = Back
    /\ items = ExpectedProjectList(cfg)
    /\ \/ pidx + 1 > Len(cfg.projects)
       \/ cfg.projects[pidx + 1] # project

\* the servers of the list the selection was made in, as the file f defines it
ListFromFile(f) ==
    IF f = BadFile THEN <<>>
    ELSE IF searchString # <<>> THEN FlatServers(FileContents[f], searchString)
    ELSE IF pidx + 1 <= Len(FileContents[f].projects)
         THEN FileContents[f].projects[pidx + 1].servers
         ELSE <<>>

\* C3: the command a selection starts is computed from what the configuration
\* file holds when the selection is made (README.md:110, "Reloads YAML config
\* on each action").
C3_ReloadOnEachAction ==
    Running =>
        /\ ret.idx + 1 <= Len(ListFromFile(fileAtSelect))
        /\ cmdStr = EffectiveCommand(ListFromFile(fileAtSelect)[ret.idx + 1],
                                     FileContents[fileAtSelect])

\* C4: in hierarchical mode, when the command returns, however it ended, the
\* process goes on and the same server list of the same project is shown
\* again; nothing else of the navigator changes.
C4_ServerListAgain ==
    [][ MainStepAt("serverRunning")
        => /\ pc' = "serverPrompt"
           /\ exitCode' = -1
           /\ items' = items /\ project' = project /\ pidx' = pidx
           /\ cfg' = cfg /\ printedHelp' = printedHelp
           /\ nDispatched' = nDispatched ]_navVars

\* the server list is shown again after a second command, which failed
C4_Witness ==
    /\ pc = "serverPrompt"
    /\ nDispatched >= 2
    /\ out[Len(out)] = "Command failed"

\* C5: with a search string the widget is presented at most once, at most one
\* command is started, the project and server menus are never shown, and when
\* the command returns, however it ended, the process exits with code 0.
C5_FlatOneShot ==
    /\ [](searchString # <<>>
          => /\ shown.flat <= 1 /\ shown.project = 0 /\ shown.server = 0
             /\ nDispatched <= 1
             /\ pc \notin {"projectPrompt", "serverPrompt", "serverRunning"})
    /\ [][ MainStepAt("flatRunning") => (pc' = "exited" /\ exitCode' = 0) ]_navVars

\* flat mode exited after its one command, which failed
C5_Witness ==
    /\ pc = "exited" /\ exitCode = 0
    /\ searchString # <<>>
    /\ nDispatched = 1 /\ shown.flat = 1
    /\ out[Len(out)] = "Command failed"

\* two characters are the same letter, whatever their case
SameLetter(a, b) ==
    \/ a = b
    \/ \E k \in 1..Len(UpperCase) : {a, b} = {UpperCase[k], LowerCase[k]}

\* q occurs in s as a substring when case is ignored
OccursIgnoringCase(q, s) ==
    \E i \in 0..(Len(s) - Len(q)) : \A j \in 1..Len(q) : SameLetter(s[i + j], q[j])

ServerMatches(s, q) ==
    OccursIgnoringCase(q, s.name) \/ OccursIgnoringCase(q, s.description)

RECURSIVE AllServers(_)
\* every server of the configuration: the projects in order, each one's
\* servers in order
AllServers(projects) ==
    IF Len(projects) = 0 THEN <<>>
    ELSE Head(projects).servers \o AllServers(Tail(projects))

\* main is past the loading of the configuration, in flat mode
FlatLoaded == searchString # <<>> /\ pc # "start" /\ exitCode # 1

\* C6: in flat mode, when no server of the loaded configuration matches the
\* search string, the process has printed the no-match message and nothing
\* else, and has exited with code 0 without showing a menu or starting a command.
C6_NoMatchExits ==
    (FlatLoaded /\ \A i \in 1..Len(AllServers(cfg.projects)) :
                      ~ServerMatches(AllServers(cfg.projects)[i], searchString))
    => /\ pc = "exited" /\ exitCode = 0
       /\ TotalShown = 0 /\ nDispatched = 0
       /\ out = <<"No servers found matching">>

\* no server matched although the configuration has servers
C6_Witness ==
    /\ pc = "exited" /\ searchString # <<>>
    /\ out = <<"No servers found matching">>
    /\ Len(AllServers(cfg.projects)) >= 2

\* C7: the flat list is the sequence of all servers, in declaration order,
\* restricted to those whose name or description contains the search string
\* when case is ignored.
C7_FilterCorrect ==
    FlatLoaded =>
        flatServers = SelectSeq(AllServers(cfg.projects),
                                LAMBDA s : ServerMatches(s, searchString))

\* a flat list that keeps some servers and drops others, found only by ignoring
\* case, with a server that matches in its name and in its description
C7_Witness ==
    /\ pc = "flatPrompt"
    /\ Len(flatServers) >= 2
    /\ Len(flatServers) < Len(AllServers(cfg.projects))
    /\ \E i \in 1..Len(flatServers) :
          /\ OccursIgnoringCase(searchString, flatServers[i].name)
          /\ OccursIgnoringCase(searchString, flatServers[i].description)
          /\ ~Contains(flatServers[i].name, searchString)
    /\ \E i \in 1..Len(flatServers) :
          ~OccursIgnoringCase(searchString, flatServers[i].name)

TokenAt(t, i) ==
    i + Len(ServerToken) - 1 <= Len(t) /\ SubSeq(t, i, i + Len(ServerToken) - 1) = ServerToken

RECURSIVE SubstituteEvery(_, _, _)
\* the template t from position i on, with the name in place of every {server}
SubstituteEvery(t, i, name) ==
    IF i > Len(t) THEN <<>>
    ELSE IF TokenAt(t, i)
         THEN name \o SubstituteEvery(t, i + Len(ServerToken), name)
         ELSE <<t[i]>> \o SubstituteEvery(t, i + 1, name)

\* the list the last selection was made in
ListShown == IF searchString # <<>> THEN flatServers ELSE project.servers

\* C8: the command started for the chosen server is the server's command when
\* it has one, unchanged, and otherwise global_command with every {server}
\* replaced by the server's name.
C8_CommandResolution ==
    Running =>
        /\ server = ListShown[ret.idx + 1]
        /\ cmdStr = IF server.command # <<>> THEN server.command
                    ELSE SubstituteEvery(cfg.global_command, 1, server.name)

\* a server without a command is dispatched with a template that holds
\* {server} more than once
C8_Witness ==
    /\ Running
    /\ server.command = <<>>
    /\ \E i, j \in 1..Len(cfg.global_command) :
          i < j /\ TokenAt(cfg.global_command, i) /\ TokenAt(cfg.global_command, j)
    /\ cmdStr # cfg.global_command

-----------------------------------------------------------------------------
(* The output filter: bellFilter.Write, sshmenu.go:42-62 *)

\* the longest slice written through the filter
MaxWriteLen == 3

\* '\a', the BEL character
Bell == 7

ByteValues == {Bell, 10, 65}

RECURSIVE filterFrom(_, _)
\* the loop of sshmenu.go:48-52, appending to acc
filterFrom(p, acc) ==
    IF Len(p) = 0 THEN acc
    ELSE filterFrom(Tail(p), IF Head(p) # Bell THEN Append(acc, Head(p)) ELSE acc)

\* a loop that stops filtering after the first BEL it drops
filteredFirstBellOnly(p) ==
    IF \E i \in 1..Len(p) : p[i] = Bell
    THEN LET i == CHOOSE k \in 1..Len(p) : p[k] = Bell /\ \A j \in 1..(k - 1) : p[j] # Bell
         IN  SubSeq(p, 1, i - 1) \o SubSeq(p, i + 1, Len(p))
    ELSE p

\* filtered, sshmenu.go:47-52
filtered(p) == filterFrom(p, <<>>)

\* What b.w.Write(b) can return.  An io.Writer is to return an error when it
\* accepts fewer bytes than it was given; one that does not is allowed for here
\* too, since bellFilter wraps any io.Writer.
UnderlyingResults(b) == {[n |-> k, err |-> e] : k \in 0..Len(b), e \in {"nil", "EIO"}}

WriteResultPassThrough(p, u) == [n |-> u.n, err |-> u.err]

\* what Write returns once the underlying write returned u, sshmenu.go:58-61
WriteResult(p, u) ==
    IF u.err # "nil" THEN [n |-> u.n, err |-> u.err]
    ELSE [n |-> Len(p), err |-> "nil"]

\* bellFilter.Write(p)
BellWrite ==
    /\ wpc = "ready"
    /\ wpc' = "done"
    /\ IF Len(wp) = 0
       THEN /\ wRet' = [n |-> 0, err |-> "nil"]
            /\ UNCHANGED <<wCalled, wUnder, wUnderRet>>
       ELSE \E u \in UnderlyingResults(filtered(wp)) :
            /\ wCalled' = TRUE
            /\ wUnderRet' = u
            /\ wUnder' = SubSeq(filtered(wp), 1, u.n)
            /\ wRet' = WriteResult(wp, u)
    /\ UNCHANGED <<wp, navVars, updateVars>>

NavIdle ==
    /\ widget = "promptui"
    /\ args = <<>> /\ file = BadFile /\ cfg = NoConfig /\ searchString = <<>>
    /\ printedHelp = FALSE /\ pc = "idle" /\ exitCode = -1 /\ items = <<>>
    /\ flatServers = <<>> /\ project = NoProject /\ pidx = 0 /\ ret = NoRet
    /\ server = NoServer /\ cmdStr = <<>> /\ out = <<>> /\ nDispatched = 0
    /\ shown = NoneShown /\ nEdits = 0 /\ fileAtSelect = BadFile

WriteInit ==
    /\ wp \in StringsUpTo(ByteValues, MaxWriteLen)
    /\ wpc = "ready" /\ wCalled = FALSE /\ wUnder = <<>>
    /\ wUnderRet = NoWriteRet /\ wRet = NoWriteRet
    /\ NavIdle
    /\ UpdateIdle

WriteNext == BellWrite

WriteSpec == WriteInit /\ [][WriteNext]_vars

\* p with every bell byte removed, the other bytes in their order
WithoutBells(p) == SelectSeq(p, LAMBDA c : c # Bell)

\* the underlying write, when there was one, accepted all it was given and
\* reported no error
UnderlyingSucceeded ==
    wCalled => wUnderRet = [n |-> Len(WithoutBells(wp)), err |-> "nil"]

\* C9: when the underlying write succeeds, the underlying stream has received
\* p without its bell bytes, the rest in order, and Write reports len(p) and
\* no error; so too for an empty p and for a p of bell bytes only.
C9_BellsRemoved ==
    (wpc = "done" /\ UnderlyingSucceeded)
    => /\ wUnder = WithoutBells(wp)
       /\ wRet = [n |-> Len(wp), err |-> "nil"]

\* a slice with two bell bytes around another byte was written
C9_Witness ==
    /\ wpc = "done" /\ UnderlyingSucceeded
    /\ Cardinality({i \in 1..Len(wp) : wp[i] = Bell}) >= 2
    /\ wUnder # <<>> /\ Len(wUnder) < Len(wp)
    /\ wRet.n = Len(wp)

-----------------------------------------------------------------------------
(* The self-update routine: sshmenu --update, sshmenu.go:119-199 *)

\* how many times the routine is run on the same machine
MaxRuns == 2

\* What the release URL can serve and what the executable can be.  Contents
\* are short byte sequences.
Binaries == {<<1>>, <<2, 0>>, <<2, 1>>}

HtmlPage == <<60, 33>>

TextHtml == <<"t","e","x","t","/","h","t","m","l">>
OctetStream == <<"a","p","p","l","i","c","a","t","i","o","n","/",
                 "o","c","t","e","t","-","s","t","r","e","a","m">>
ContentTypes ==
    {OctetStream, TextHtml, TextHtml \o <<";"," ","c","h","a","r","s","e","t","=","u","t","f","-","8">>, <<>>}

\* md5sum, sshmenu.go:157-168, as a digest: equal contents have equal sums,
\* and two different contents can have the same sum (here <<2,0>> and <<2,1>>)
md5sum(data) == [len |-> Len(data), head |-> IF Len(data) = 0 THEN 0 ELSE data[1]]

AlwaysDiffer(a, b) == TRUE

\* tmpSum != exeSum, sshmenu.go:179
SumsDiffer(a, b) == a # b

UExit(code) == upc' = "exited" /\ uExit' = code

IsHtmlExactly(ct) == ct = TextHtml

\* strings.Contains(ct, "text/html"), sshmenu.go:141
IsHtml(ct) == Contains(ct, TextHtml)

\* a step of the routine failed: the diagnostic, the exit code, and which step
UFail(step, msgs, code) ==
    /\ uOut' = uOut \o msgs
    /\ uRun' = [uRun EXCEPT !.failed = step]
    /\ UExit(code)

\* os.Executable, the download and the content-type check, sshmenu.go:122-144
UpdateFetch ==
    /\ upc = "start"
    /\ UNCHANGED <<uExe, uTmp, uRelease, tmpSum, exeSum, uRuns, uReplaced>>
    /\ UNCHANGED <<navVars, writeVars>>
    /\ \E exeOk \in BOOLEAN, getOk \in BOOLEAN, ct \in ContentTypes :
        IF ~exeOk
        THEN /\ UFail("executable path", <<"Error determining executable path">>, 1)
             /\ UNCHANGED <<uBody, uResp>>
        ELSE IF ~getOk
        THEN /\ UFail("download", <<"Downloading latest release...", "Download failed">>, 1)
             /\ UNCHANGED <<uBody, uResp>>
        ELSE /\ uResp' = [got |-> TRUE, ct |-> ct]
             /\ IF IsHtml(ct)
                THEN /\ UFail("content type", <<"Downloading latest release...",
                                               "Error: Downloaded file is HTML">>, 2)
                     /\ uBody' = HtmlPage
                ELSE /\ uOut' = Append(uOut, "Downloading latest release...")
                     /\ uBody' = uRelease
                     /\ upc' = "fetched"
                     /\ UNCHANGED <<uExit, uRun>>

\* os.OpenFile of the temporary file and io.Copy into it, sshmenu.go:145-155
UpdateDownload ==
    /\ upc = "fetched"
    /\ UNCHANGED <<uExe, uRelease, uBody, uResp, tmpSum, exeSum, uRuns, uReplaced>>
    /\ UNCHANGED <<navVars, writeVars>>
    /\ \E openOk \in BOOLEAN, written \in 0..Len(uBody) :
        IF ~openOk
        THEN /\ UFail("create", <<"Error creating temporary file for update">>, 1)
             /\ UNCHANGED uTmp
        ELSE /\ uTmp' = [exists |-> TRUE, data |-> SubSeq(uBody, 1, written)]
             /\ IF written < Len(uBody)
                THEN UFail("copy", <<"Error writing update">>, 1)
                ELSE /\ uRun' = [uRun EXCEPT !.copied = TRUE]
                     /\ upc' = "downloaded"
                     /\ UNCHANGED <<uOut, uExit>>

\* the two md5sums, the comparison, and the rename or the removal,
\* sshmenu.go:169-198
UpdateInstall ==
    /\ upc = "downloaded"
    /\ UNCHANGED <<uRelease, uBody, uResp, uRuns>>
    /\ UNCHANGED <<navVars, writeVars>>
    /\ \E tmpSumOk \in BOOLEAN, exeSumOk \in BOOLEAN, renameOk \in BOOLEAN,
          versionOk \in BOOLEAN, removeOk \in BOOLEAN :
        IF ~tmpSumOk
        THEN /\ UFail("md5sum of tempfile", <<"Error computing md5sum for tempfile">>, 1)
             /\ UNCHANGED <<uExe, uTmp, tmpSum, exeSum, uReplaced>>
        ELSE /\ tmpSum' = md5sum(uTmp.data)
             /\ IF ~exeSumOk
                THEN /\ UFail("md5sum of executable",
                              <<"Error computing md5sum for executable">>, 1)
                     /\ UNCHANGED <<uExe, uTmp, exeSum, uReplaced>>
                ELSE /\ exeSum' = md5sum(uExe)
                     /\ IF SumsDiffer(md5sum(uTmp.data), md5sum(uExe))
                        THEN IF ~renameOk
                             THEN /\ UFail("rename", <<"Error replacing executable">>, 1)
                                  /\ UNCHANGED <<uExe, uTmp, uReplaced>>
                             ELSE /\ uExe' = uTmp.data
                                  /\ uTmp' = NoFile
                                  /\ uReplaced' = uReplaced + 1
                                  /\ uRun' = [uRun EXCEPT !.replaced = TRUE,
                                                !.version = IF versionOk THEN "ok" ELSE "failed"]
                                  /\ uOut' = uOut \o <<"Update complete. New version: ">>
                                        \o (IF versionOk THEN <<>>
                                            ELSE <<"(error running updated binary to show version)">>)
                                  /\ UExit(0)
                        ELSE /\ uOut' = Append(uOut, "No update needed")
                             /\ uTmp' = IF removeOk THEN NoFile ELSE uTmp
                             /\ uRun' = [uRun EXCEPT !.remove = IF removeOk THEN "ok" ELSE "failed"]
                             /\ UExit(0)
                             /\ UNCHANGED <<uExe, uReplaced>>

\* sshmenu --update is run once more on the same machine, the release unchanged
UpdateAgain ==
    /\ upc = "exited"
    /\ uRuns < MaxRuns
    /\ uRuns' = uRuns + 1
    /\ upc' = "start"
    /\ uExit' = -1
    /\ uOut' = <<>>
    /\ uBody' = <<>>
    /\ uResp' = NoResp
    /\ tmpSum' = NoSum
    /\ exeSum' = NoSum
    /\ uRun' = NoRun
    /\ UNCHANGED <<uExe, uTmp, uRelease, uReplaced>>
    /\ UNCHANGED <<navVars, writeVars>>

UpdateInit ==
    /\ upc = "start"
    /\ uExe \in Binaries
    /\ uRelease \in Binaries
    /\ uTmp \in {NoFile, [exists |-> TRUE, data |-> <<9>>]}
    /\ uBody = <<>>
    /\ uResp = NoResp
    /\ tmpSum = NoSum
    /\ exeSum = NoSum
    /\ uExit = -1
    /\ uOut = <<>>
    /\ uRuns = 1
    /\ uReplaced = 0
    /\ uRun = NoRun
    /\ NavIdle
    /\ WriteIdle

UpdateNext ==
    \/ UpdateFetch
    \/ UpdateDownload
    \/ UpdateInstall
    \/ UpdateAgain

UpdateSpec == UpdateInit /\ [][UpdateNext]_vars

\* both sums were computed in this run and they are equal
SumsEqual == tmpSum # NoSum /\ exeSum # NoSum /\ tmpSum = exeSum

\* the executable is replaced in a run only after the download was written in
\* full and the two sums were found to differ
ReplacedOnlyWhenNew ==
    uRun.replaced => (uRun.copied /\ tmpSum # NoSum /\ exeSum # NoSum
                      /\ tmpSum # exeSum /\ uExe = uBody)

DeclaresHtml(ct) ==
    /\ Len(ct) >= Len(TextHtml)
    /\ SubSeq(ct, 1, Len(TextHtml)) = TextHtml
    /\ (Len(ct) > Len(TextHtml) => ct[Len(TextHtml) + 1] = ";")

FailingSteps == {"executable path", "download", "create", "copy",
                 "md5sum of tempfile", "md5sum of executable", "rename"}

\* C11: the routine exits with code 2 exactly when the response it received
\* declares HTML, with code 1 exactly when one of its other steps failed, and
\* with code 0 otherwise; after an exit with code 1 or 2 the executable is what
\* it was.
C11_UpdateExitCodes ==
    upc = "exited" =>
        /\ uExit \in {0, 1, 2}
        /\ uExit = 2 <=> (uResp.got /\ DeclaresHtml(uResp.ct))
        /\ uExit = 1 <=> uRun.failed \in FailingSteps
        /\ uExit \in {1, 2} => (~uRun.replaced /\ (uRuns = 1 => uReplaced = 0))

\* the rename failed after a full download of a new binary
C11_Witness ==
    /\ upc = "exited" /\ uExit = 1
    /\ uRun.failed = "rename" /\ uRun.copied
    /\ tmpSum # exeSum /\ uExe # uRelease /\ uTmp.exists

-----------------------------------------------------------------------------
(* Further properties of the menu navigator *)

Prompting == pc \in {"flatPrompt", "projectPrompt", "serverPrompt"}

\* the widget reported interrupt or end of input
Cancel(r) == r.err \in {"interrupt", "eof"}

\* C12: when the widget reports interrupt or end of input, in the flat list, the
\* project list or the server list and whatever came before, that very step
\* prints "Exiting." and ends the process with exit code 0, with no command
\* dispatched and no menu presented; nothing happens after the exit.
C12_CancelExits ==
    /\ [][ (Prompting /\ nEdits' = nEdits /\ Cancel(ret'))
           => /\ out' = Append(out, "Exiting.")
              /\ pc' = "exited" /\ exitCode' = 0
              /\ nDispatched' = nDispatched /\ shown' = shown ]_navVars
    /\ [][ pc = "exited" => UNCHANGED <<pc, exitCode, out, nDispatched, shown>> ]_navVars

\* end of input at the server list, after a command was dispatched and the
\* server list was shown again
C12_Witness ==
    /\ pc = "exited" /\ exitCode = 0
    /\ ret.err = "eof"
    /\ nDispatched >= 1 /\ shown.server >= 2
    /\ out[Len(out)] = "Exiting."

\* a step of main that loads the configuration file: the start of the program
\* (unless it only prints the usage or the version) and the return from the
\* server list by Back
LoadStep ==
    /\ nEdits' = nEdits
    /\ \/ pc = "start" /\ ~(Len(args) > 0 /\ args[1] \in {HelpFlag, VersionFlag})
       \/ pc = "serverPrompt" /\ ret'.err = "nil" /\ ret'.result = Back

\* the file as it is cannot be loaded: it is missing or malformed
LoadFails == file = BadFile

\* C13: a load of the configuration that fails, at the start or after Back,
\* prints the diagnostic and ends the process with exit status 1 in that very
\* step; no menu is presented and no command dispatched by it, the list shown
\* before is not shown again, and a menu or a running command always rests on
\* a configuration that was loaded from a loadable file.
C13_LoadFailureIsFatal ==
    /\ [][ (LoadStep /\ LoadFails)
           => /\ out' = Append(out, "Error loading config")
              /\ pc' = "exited" /\ exitCode' = 1
              /\ nDispatched' = nDispatched /\ shown' = shown ]_navVars
    /\ []((Prompting \/ Running) => \E f \in Files \ {BadFile} : cfg = FileContents[f])
    /\ [][ (LoadStep /\ ~LoadFails /\ pc' # "exited") => cfg' = FileContents[file] ]_navVars

\* the file became unreadable while the server list was shown, after a
\* dispatch, and Back was chosen
C13_Witness ==
    /\ pc = "exited" /\ exitCode = 1
    /\ ret.err = "nil" /\ ret.result = Back
    /\ nDispatched >= 1 /\ file = BadFile
    /\ out[Len(out)] = "Error loading config"

\* the servers of project p, in declaration order, then the single Back entry
ExpectedServerList(p) ==
    [i \in 1..(Len(p.servers) + 1) |->
        IF i <= Len(p.servers)
        THEN p.servers[i].name \o <<" ", "-", " ">> \o p.servers[i].description
        ELSE Back]

\* C14: choosing in the project list an entry at an index below the number of
\* projects, whatever the project's name, leads to the server list of exactly
\* that project: its servers in declaration order followed by Back.
C14_ProjectEntersServerList ==
    [][ (MainStepAt("projectPrompt") /\ ret'.err = "nil"
            /\ ret'.idx < Len(cfg.projects))
        => /\ pc' = "serverPrompt"
           /\ project' = cfg.projects[ret'.idx + 1]
           /\ items' = ExpectedServerList(cfg.projects[ret'.idx + 1]) ]_navVars

\* the widget returned, without an error, an index that is no real entry of
\* the list shown together with a label that is no synthetic entry
NoRealEntry(r) ==
    /\ r.err = "nil"
    /\ r.result \notin {Quit, Back}
    /\ (r.idx < 0 \/ r.idx >= Len(items) - 1)

\* C15, as stated: such a result dispatches nothing and the same menu is
\* presented again, in each of the three menus.
C15_AsStated ==
    [][ (Prompting /\ nEdits' = nEdits /\ NoRealEntry(ret'))
        => /\ nDispatched' = nDispatched
           /\ pc' = pc
           /\ TotalShown' = TotalShown + 1 ]_navVars

\* C15: such a result dispatches nothing and prints nothing; in the server
\* list the same list is presented again, while in the flat list and in the
\* project list the process ends with exit code 0.
C15_NoSelection ==
    [][ (Prompting /\ nEdits' = nEdits /\ NoRealEntry(ret'))
        => /\ nDispatched' = nDispatched /\ out' = out
           /\ UNCHANGED <<server, cmdStr, items, cfg>>
           /\ IF pc = "serverPrompt"
              THEN /\ pc' = pc
                   /\ shown' = [shown EXCEPT !.server = @ + 1]
              ELSE /\ pc' = "exited" /\ exitCode' = 0
                   /\ shown' = shown ]_navVars

\* an index past the end of the server list was returned and the list shown
\* again, and later an index before the start of the project list ended the
\* process
C15_Witness ==
    /\ widget = "unchecked"
    /\ pc = "exited" /\ exitCode = 0
    /\ ret.err = "nil" /\ ret.result = Unlisted /\ ret.idx = -1
    /\ shown.server >= 2 /\ shown.project >= 2 /\ shown.flat = 0
    /\ nDispatched = 0
    /\ out = <<"Navigation hint">>

-----------------------------------------------------------------------------
(* Further properties of the output filter *)

\* C16: a Write through the filter returns either (len(p), no error), or the
\* error of the underlying write together with the count the underlying write
\* reported for the filtered bytes; a count other than len(p) never comes
\* without an error, also when the underlying write accepted fewer bytes than
\* it was given and reported none.
C16_WriteResult ==
    wpc = "done" =>
        /\ \/ wRet = [n |-> Len(wp), err |-> "nil"]
           \/ /\ wCalled /\ wUnderRet.err # "nil"
              /\ wRet.err = wUnderRet.err /\ wRet.n = wUnderRet.n
              /\ wRet.n <= Len(WithoutBells(wp))
        /\ (wRet.n # Len(wp) => wRet.err # "nil")
        /\ (wCalled /\ wUnderRet.err # "nil" => wRet.err = wUnderRet.err)

\* the underlying write took fewer bytes than the filtered sequence had and
\* reported no error, for a p that held a bell
C16_Witness ==
    /\ wpc = "done" /\ wCalled
    /\ wUnderRet.err = "nil"
    /\ wUnderRet.n < Len(WithoutBells(wp))
    /\ Len(WithoutBells(wp)) < Len(wp)
    /\ wRet = [n |-> Len(wp), err |-> "nil"]

-----------------------------------------------------------------------------
(* The navigation hint *)

\* how many times the hint was printed
HintCount == Cardinality({i \in 1..Len(out) : out[i] = "Navigation hint"})

\* C17: the navigation hint is printed at most once in the life of the process:
\* by the step that presents the project list for the first time, as the last
\* thing printed before that list; a later presentation of the project list
\* prints nothing, and in flat mode the hint is never printed.
C17_HintOnce ==
    /\ [](/\ HintCount <= 1
          /\ (HintCount = 1 <=> shown.project >= 1)
          /\ (searchString # <<>> \/ shown.flat >= 1 => HintCount = 0))
    /\ [][ shown'.project = shown.project + 1
           => out' = IF shown.project = 0 THEN Append(out, "Navigation hint")
                     ELSE out ]_navVars

\* the project list is shown for the second time, after a command ran
C17_Witness ==
    /\ pc = "projectPrompt"
    /\ shown.project >= 2 /\ nDispatched >= 1
    /\ HintCount = 1

-----------------------------------------------------------------------------
(* Diagnostics of the update routine *)

\* the messages that report a failure of a step of the update routine
UpdateDiagnostics ==
    {"Error determining executable path", "Download failed",
     "Error: Downloaded file is HTML", "Error creating temporary file for update",
     "Error writing update", "Error computing md5sum for tempfile",
     "Error computing md5sum for executable", "Error replacing executable",
     "(error running updated binary to show version)"}

\* a step of this run of the update routine failed
SomeStepFailed ==
    \/ uRun.failed # "none"
    \/ uRun.version = "failed"
    \/ uRun.remove = "failed"

\* C18: no error is silently swallowed: when a step of the update routine
\* failed, the deletion of the temporary file included, the last thing printed
\* before the process ends is a diagnostic of that failure.
C18_NoErrorSwallowed ==
    (upc = "exited" /\ SomeStepFailed)
        => /\ Len(uOut) > 0
           /\ uOut[Len(uOut)] \in UpdateDiagnostics

-----------------------------------------------------------------------------
(* What is dispatched is what was displayed *)

\* the label under which server s is displayed
DisplayedAs(s) == s.name \o <<" ", "-", " ">> \o s.description

\* C19: while a command runs, the server it was dispatched for is the one
\* whose "<name> - <description>" stood at the chosen index of the list that
\* was displayed, also when the file changed after the list was built; that
\* index is the index of a real entry, never of Quit or Back.
C19_DispatchedIsDisplayed ==
    Running =>
        /\ ret.err = "nil"
        /\ ret.idx >= 0 /\ ret.idx + 1 < Len(items)
        /\ items[ret.idx + 1] = DisplayedAs(server)
        /\ ret.result = DisplayedAs(server)
        /\ ret.result \notin {Quit, Back}
        /\ items[Len(items)] \in {Quit, Back}

\* a command runs for an entry other than the first, while the file no longer
\* holds what the displayed list was built from
C19_Witness ==
    /\ Running
    /\ ret.idx >= 1
    /\ file # BadFile /\ FileContents[file] # cfg
    /\ nEdits >= 1

====
